---- MODULE Spec2Model ----
(***************************************************************************)
(* A model of mpnum's array helpers (mpnum/_tools.py) and of its factory   *)
(* of random matrix product arrays (mpnum/factory.py).                     *)
(*                                                                         *)
(* A tensor (numpy.ndarray) is a record [shape, data]: shape is the tuple  *)
(* of extents and data maps every index tuple (0-based entries, one per    *)
(* axis) to the entry stored there.  Axis numbers are 0-based as in the    *)
(* source; TLA+ sequences are 1-based, so axis a is element a + 1.         *)
(***************************************************************************)
EXTENDS Integers, Sequences, FiniteSets

VARIABLES call, out, randstate, np_random

vars == <<call, out, randstate, np_random>>

(***************************************************************************)
(* Bounds of the model.                                                    *)
(***************************************************************************)
MaxNdim == 6
MaxSites == 3
MaxSkip == 2
MaxTraceSites == 3
MaxRank == 3
MaxAxes == 2
MaxSummands == 2
MaxChainSites == 3
MaxLdim == 2
MaxBdim == 2
MaxPos == 2

(***************************************************************************)
(* numpy arrays                                                            *)
(***************************************************************************)
RECURSIVE Prod(_)
Prod(shape) == IF shape = <<>> THEN 1 ELSE shape[1] * Prod(Tail(shape))

RECURSIVE Indices(_)
Indices(shape) ==
    IF shape = <<>> THEN {<<>>}
    ELSE LET rest == Indices(Tail(shape))
         IN  {<<h>> \o t : h \in 0 .. shape[1] - 1, t \in rest}

RECURSIVE RowMajor(_, _)
RowMajor(shape, idx) ==
    IF shape = <<>> THEN 0
    ELSE idx[1] * Prod(Tail(shape)) + RowMajor(Tail(shape), Tail(idx))

\* np.arange(start, start + size).reshape(shape)
arange(start, shape) ==
    [shape |-> shape,
     data  |-> [idx \in Indices(shape) |-> start + RowMajor(shape, idx)]]

\* np.zeros(shape)
zeros(shape) == [shape |-> shape, data |-> [idx \in Indices(shape) |-> 0]]

ndim(array) == Len(array.shape)

\* numpy accepts a negative axis number a as a + ndim
NormAxis(a, n) == IF a < 0 THEN a + n ELSE a

\* np.transpose raises ValueError unless axes is a permutation of the axes
IsAxes(order, n) ==
    /\ Len(order) = n
    /\ \A a \in 0 .. n - 1 : \E i \in 1 .. n : NormAxis(order[i], n) = a

\* np.transpose(array, order): axis i of the result is axis order[i] of array
transpose(array, order) ==
    LET n   == ndim(array)
        ax  == [i \in 1 .. n |-> NormAxis(order[i], n)]
        pos == [a \in 0 .. n - 1 |-> CHOOSE i \in 1 .. n : ax[i] = a]
        shp == [i \in 1 .. n |-> array.shape[ax[i] + 1]]
    IN  [array EXCEPT
            !.shape = shp,
            !.data  = [idx \in Indices(shp) |->
                         array.data[[k \in 1 .. n |-> idx[pos[k - 1]]]]]]

Ok(array) == [status |-> "ok", value |-> array]
Raise(err) == [status |-> err]
Pending == [status |-> "pending"]

(***************************************************************************)
(* global_to_local, local_to_global                                        *)
(***************************************************************************)
\* the roles of plegs and sites exchanged
global_to_local_order_exchanged(plegs, sites) ==
    [k \in 1 .. plegs * sites |->
        ((k - 1) \div sites) + plegs * ((k - 1) % sites)]

global_to_local_order(plegs, sites) ==
    [k \in 1 .. plegs * sites |->
        ((k - 1) \div plegs) + sites * ((k - 1) % plegs)]

\* the permutation computed but the array returned as it came
global_to_local_untransposed(array, sites) ==
    IF ndim(array) % sites # 0 THEN Raise("AssertionError") ELSE Ok(array)

global_to_local(array, sites) ==
    IF ndim(array) % sites # 0 THEN Raise("AssertionError")
    ELSE LET plegs == ndim(array) \div sites
         IN  Ok(transpose(array, global_to_local_order(plegs, sites)))

\* range(n) as a sequence (empty for n <= 0)
Range(lo, hi) == [k \in 1 .. (IF hi > lo THEN hi - lo ELSE 0) |-> lo + k - 1]

\* the two loops of the generator nested the other way round
local_to_global_order_loops_swapped(nd, plegs, sites, left_skip, right_skip) ==
    LET inner == [k \in 1 .. (IF plegs > 0 THEN plegs * sites ELSE 0) |->
                     left_skip + plegs * ((k - 1) \div plegs) + ((k - 1) % plegs)]
    IN  Range(0, left_skip) \o inner \o Range(nd - right_skip, nd)

local_to_global_order(nd, plegs, sites, left_skip, right_skip) ==
    LET inner == [k \in 1 .. (IF plegs > 0 THEN plegs * sites ELSE 0) |->
                     left_skip + plegs * ((k - 1) % sites) + ((k - 1) \div sites)]
    IN  Range(0, left_skip) \o inner \o Range(nd - right_skip, nd)

local_to_global(array, sites, left_skip, right_skip) ==
    LET skip  == left_skip + right_skip
        nd    == ndim(array) - skip
    IN  IF nd % sites # 0 THEN Raise("AssertionError")
        ELSE LET plegs == nd \div sites
                 order == local_to_global_order(ndim(array), plegs, sites,
                                                left_skip, right_skip)
             IN  IF IsAxes(order, ndim(array))
                 THEN Ok(transpose(array, order))
                 ELSE Raise("ValueError")

(***************************************************************************)
(* Inputs of the layout functions: for every rank up to MaxNdim the array  *)
(* np.arange(size).reshape(shape) of shape (1, 2, ..., n) (the shape of    *)
(* the doctests) and of shape (2, ..., 2).                                 *)
(***************************************************************************)
Ladder(n) == [i \in 1 .. n |-> i]
Uniform(n, d) == [i \in 1 .. n |-> d]

LayoutArrays ==
    {arange(0, shp) : shp \in {Ladder(n) : n \in 0 .. MaxNdim}
                              \cup {Uniform(n, 2) : n \in 0 .. MaxNdim}}

LayoutCalls ==
    [op : {"global_to_local"}, array : LayoutArrays, sites : 1 .. MaxSites]
    \cup
    [op : {"local_to_global"}, array : LayoutArrays, sites : 1 .. MaxSites,
     left_skip : 0 .. MaxSkip, right_skip : 0 .. MaxSkip]

InitLayout ==
    /\ call \in LayoutCalls
    /\ out = Pending
    /\ randstate = 0
    /\ np_random = 0

GlobalToLocal ==
    /\ call.op = "global_to_local"
    /\ out = Pending
    /\ out' = global_to_local(call.array, call.sites)
    /\ UNCHANGED <<call, randstate, np_random>>

LocalToGlobal ==
    /\ call.op = "local_to_global"
    /\ out = Pending
    /\ out' = local_to_global(call.array, call.sites,
                              call.left_skip, call.right_skip)
    /\ UNCHANGED <<call, randstate, np_random>>

NextLayout == GlobalToLocal \/ LocalToGlobal

SpecLayout == InitLayout /\ [][NextLayout]_vars

(***************************************************************************)
(* Properties of global_to_local and local_to_global                       *)
(***************************************************************************)
\* b holds a's entries with its axes rearranged: axis i of b (0-based) is
\* axis src[i + 1] of a
Rearranged(a, b, src) ==
    LET n == ndim(a)
    IN  /\ ndim(b) = n
        /\ \A i \in 1 .. n : b.shape[i] = a.shape[src[i] + 1]
        /\ \A idx \in Indices(b.shape) :
              LET from == [k \in 1 .. n |->
                             idx[CHOOSE i \in 1 .. n : src[i] = k - 1]]
              IN  b.data[idx] = a.data[from]

GlobalToLocalDone ==
    /\ call.op = "global_to_local"
    /\ out.status = "ok"

LocalToGlobalDone ==
    /\ call.op = "local_to_global"
    /\ out.status = "ok"

\* C1: local_to_global leaves the left_skip leading and the right_skip
\* trailing axes where they are and applies to the axes between them the
\* inverse of the permutation global_to_local applies for the same sites
\* (whenever the axes between them are a multiple of sites, the call
\* succeeds); with no skips, local_to_global(global_to_local(T, sites), sites)
\* is T again.
C1_LocalToGlobalInvertsGlobalToLocal ==
    /\ (/\ call.op = "local_to_global"
        /\ out # Pending
        /\ call.left_skip + call.right_skip <= ndim(call.array)
        /\ (ndim(call.array) - call.left_skip - call.right_skip) % call.sites = 0)
       =>
         /\ out.status = "ok"
         /\ LET n     == ndim(call.array)
                ls    == call.left_skip
                rs    == call.right_skip
                inner == n - ls - rs
                P     == global_to_local_order(inner \div call.sites, call.sites)
                \* axis ls + P[k] of the result is axis ls + k - 1 of the input
                src   == [i \in 1 .. n |->
                            IF i <= ls \/ i > n - rs THEN i - 1
                            ELSE ls + (CHOOSE k \in 1 .. inner :
                                          P[k] = i - 1 - ls) - 1]
            IN  Rearranged(call.array, out.value, src)
    /\ GlobalToLocalDone
       => local_to_global(out.value, call.sites, 0, 0) = Ok(call.array)

\* the doctest: six axes, two sites, one axis skipped on either side
C1_Witness ==
    /\ LocalToGlobalDone
    /\ call.array.shape = <<1, 2, 3, 4, 5, 6>>
    /\ call.sites = 2 /\ call.left_skip = 1 /\ call.right_skip = 1
    /\ out.value.shape = <<1, 2, 4, 3, 5, 6>>

\* C2: global_to_local turns leg-major into site-major grouping: the axis at
\* position s * plegs + l of the result (site s, leg l) is the axis at
\* position l * sites + s of the input; the shape (1, 2, 3, 4, 5, 6) becomes
\* (1, 4, 2, 5, 3, 6) for 3 sites and (1, 3, 5, 2, 4, 6) for 2 sites.
C2_GlobalToLocalSiteMajor ==
    GlobalToLocalDone =>
       LET n     == ndim(call.array)
           sites == call.sites
           plegs == n \div sites
           src   == [i \in 1 .. n |->
                       LET s == CHOOSE s \in 0 .. sites - 1 :
                                   \E l \in 0 .. plegs - 1 : s * plegs + l = i - 1
                           l == (i - 1) - s * plegs
                       IN  l * sites + s]
       IN  /\ Rearranged(call.array, out.value, src)
           /\ (call.array.shape = <<1, 2, 3, 4, 5, 6>> /\ sites = 3)
              => out.value.shape = <<1, 4, 2, 5, 3, 6>>
           /\ (call.array.shape = <<1, 2, 3, 4, 5, 6>> /\ sites = 2)
              => out.value.shape = <<1, 3, 5, 2, 4, 6>>

C2_Witness ==
    /\ GlobalToLocalDone
    /\ call.array.shape = <<1, 2, 3, 4, 5, 6>>
    /\ call.sites = 3
    /\ out.value.shape = <<1, 4, 2, 5, 3, 6>>

\* C3 as stated: the axis at position i of the input is found at position
\* floor(i / plegs) + sites * (i mod plegs) of the result.
C3_InputAxisMovesForward ==
    GlobalToLocalDone =>
       LET n     == ndim(call.array)
           plegs == n \div call.sites
       IN  \A i \in 0 .. n - 1 :
              out.value.shape[(i \div plegs) + call.sites * (i % plegs) + 1]
                 = call.array.shape[i + 1]

\* C3 amended: the axis at position i of the result is the axis at position
\* floor(i / plegs) + sites * (i mod plegs) of the input.
C3_ResultAxisTakenFrom ==
    GlobalToLocalDone =>
       LET n     == ndim(call.array)
           plegs == n \div call.sites
           src   == [k \in 1 .. n |->
                       ((k - 1) \div plegs) + call.sites * ((k - 1) % plegs)]
       IN  Rearranged(call.array, out.value, src)

\* two legs on each of three sites: the permutation is not its own inverse
C3_Witness ==
    /\ GlobalToLocalDone
    /\ ndim(call.array) = 6
    /\ call.sites = 3
    /\ out.value.shape[2] = call.array.shape[4]
    /\ out.value.shape[4] # call.array.shape[2]

(***************************************************************************)
(* partial_trace                                                           *)
(***************************************************************************)
Min(a, b) == IF a < b THEN a ELSE b

\* seq without its element at (1-based) position p
RemoveAt(seq, p) == [k \in 1 .. Len(seq) - 1 |-> IF k < p THEN seq[k] ELSE seq[k + 1]]

\* seq with x put in at (1-based) position p
InsertAt(seq, p, x) ==
    [k \in 1 .. Len(seq) + 1 |->
        IF k < p THEN seq[k] ELSE IF k = p THEN x ELSE seq[k - 1]]

RECURSIVE SumTo(_, _)
\* f[0] + ... + f[n - 1]
SumTo(f, n) == IF n <= 0 THEN 0 ELSE f[n - 1] + SumTo(f, n - 1)

\* np.trace raises for an axis the array does not have, and for twice the same
TraceAxesOk(array, axis1, axis2) ==
    /\ axis1 \in 0 .. ndim(array) - 1
    /\ axis2 \in 0 .. ndim(array) - 1
    /\ axis1 # axis2

\* np.trace(array, axis1=axis1, axis2=axis2) for axis1 < axis2: the sum of the
\* diagonal over the two axes, which are removed from the result
np_trace(array, axis1, axis2) ==
    LET d   == Min(array.shape[axis1 + 1], array.shape[axis2 + 1])
        shp == RemoveAt(RemoveAt(array.shape, axis2 + 1), axis1 + 1)
    IN  [shape |-> shp,
         data  |-> [idx \in Indices(shp) |->
                      SumTo([k \in 0 .. d - 1 |->
                               array.data[InsertAt(InsertAt(idx, axis1 + 1, k),
                                                   axis2 + 1, k)]], d)]]

RECURSIVE partial_trace_first_site_first(_, _)
\* the first listed site traced out first, the rest of the list after it
partial_trace_first_site_first(array, traceout) ==
    IF Len(traceout) = 0
    THEN [status |-> "ok", value |-> array, traced |-> <<>>]
    ELSE LET sites == ndim(array) \div 2
             rem   == ndim(array) % 2
             axis1 == traceout[1]
             axis2 == traceout[1] + sites
         IN  IF rem # 0 THEN [status |-> "AssertionError", traced |-> <<>>]
             ELSE IF ~TraceAxesOk(array, axis1, axis2)
             THEN [status |-> "ValueError", traced |-> <<>>]
             ELSE LET array_red == np_trace(array, axis1, axis2)
                      rest == partial_trace_first_site_first(array_red, Tail(traceout))
                  IN  [rest EXCEPT !.traced = << <<axis1, axis2>> >> \o @]

RECURSIVE partial_trace(_, _)
\* traced lists the axis pairs contracted, in the order of the np.trace calls
partial_trace(array, traceout) ==
    IF Len(traceout) = 0
    THEN [status |-> "ok", value |-> array, traced |-> <<>>]
    ELSE LET sites == ndim(array) \div 2
             rem   == ndim(array) % 2
             axis1 == traceout[Len(traceout)]
             axis2 == traceout[Len(traceout)] + sites
         IN  IF rem # 0 THEN [status |-> "AssertionError", traced |-> <<>>]
             ELSE IF ~TraceAxesOk(array, axis1, axis2)
             THEN [status |-> "ValueError", traced |-> <<>>]
             ELSE LET array_red == np_trace(array, axis1, axis2)
                      rest == partial_trace(array_red,
                                            SubSeq(traceout, 1, Len(traceout) - 1))
                  IN  [rest EXCEPT !.traced = << <<axis1, axis2>> >> \o @]

(***************************************************************************)
(* Inputs of partial_trace: arrays np.arange(size).reshape(shape) on up to *)
(* MaxTraceSites sites, with row extents then column extents (2,..,2) and  *)
(* (2,..,2), (1,..,s) and (1,..,s), (2,..,2) and (1,..,s), besides arrays  *)
(* with an odd number of axes; every list of at most `sites` sites.        *)
(***************************************************************************)
TraceArrays ==
    {arange(0, shp) :
        shp \in {Uniform(n, 2) : n \in 0 .. 2 * MaxTraceSites}
                \cup {Ladder(s) \o Ladder(s) : s \in 0 .. MaxTraceSites}
                \cup {Uniform(s, 2) \o Ladder(s) : s \in 0 .. MaxTraceSites}}

SeqsUpTo(S, n) == UNION {[1 .. m -> S] : m \in 0 .. n}

TraceCalls ==
    UNION {[op : {"partial_trace"}, array : {a},
            traceout : SeqsUpTo(0 .. (ndim(a) \div 2) - 1, ndim(a) \div 2)]
           : a \in TraceArrays}

InitTrace ==
    /\ call \in TraceCalls
    /\ out = Pending
    /\ randstate = 0
    /\ np_random = 0

PartialTrace ==
    /\ call.op = "partial_trace"
    /\ out = Pending
    /\ out' = partial_trace(call.array, call.traceout)
    /\ UNCHANGED <<call, randstate, np_random>>

NextTrace == PartialTrace

SpecTrace == InitTrace /\ [][NextTrace]_vars

(***************************************************************************)
(* Properties of partial_trace                                             *)
(***************************************************************************)
StrictlyAscending(seq) == \A i \in 1 .. Len(seq) - 1 : seq[i] < seq[i + 1]

ElemsOf(seq) == {seq[i] : i \in 1 .. Len(seq)}

RECURSIVE SumOver(_, _)
\* the sum of f over the elements of its domain S
SumOver(S, f) ==
    IF S = {} THEN 0
    ELSE LET x == CHOOSE x \in S : TRUE IN f[x] + SumOver(S \ {x}, f)

\* the sites of 0 .. sites - 1 not in gone, in ascending order
RECURSIVE KeptSites(_, _, _)
KeptSites(k, sites, gone) ==
    IF k >= sites THEN <<>>
    ELSE (IF k \in gone THEN <<>> ELSE <<k>>) \o KeptSites(k + 1, sites, gone)

\* The partial trace written out: the result has the row axes, then the
\* column axes, of the kept sites; its entry at idx is the sum, over every
\* choice of one index per traced site, of the entries of array whose row and
\* column index agree with idx on the kept sites and both equal the chosen
\* index on the traced sites.
TraceWrittenOut(array, gone) ==
    LET sites == ndim(array) \div 2
        kept  == KeptSites(0, sites, gone)
        nk    == Len(kept)
        shp   == [i \in 1 .. 2 * nk |->
                    IF i <= nk THEN array.shape[kept[i] + 1]
                    ELSE array.shape[sites + kept[i - nk] + 1]]
        where(s) == CHOOSE i \in 1 .. nk : kept[i] = s
        widest  == CHOOSE d \in ElemsOf(array.shape) \cup {0} :
                       \A e \in ElemsOf(array.shape) : e <= d
        choices == {c \in [gone -> 0 .. widest] :
                       \A s \in gone : c[s] < Min(array.shape[s + 1],
                                                 array.shape[sites + s + 1])}
    IN  [shape |-> shp,
         data  |-> [idx \in Indices(shp) |->
                      SumOver(choices,
                              [c \in choices |->
                                 array.data[[a \in 1 .. 2 * sites |->
                                    LET s == IF a <= sites THEN a - 1
                                             ELSE a - 1 - sites
                                    IN  IF s \in gone THEN c[s]
                                        ELSE IF a <= sites THEN idx[where(s)]
                                        ELSE idx[nk + where(s)]]]])]]

PartialTraceDone ==
    /\ call.op = "partial_trace"
    /\ out # Pending

\* C4: for an array with two legs per site and a strictly ascending list of
\* sites, partial_trace contracts the row axis with the column axis of every
\* listed site and of no other, the last listed site first as the axes r and
\* r + (number of sites left), and returns the row legs then the column legs
\* of the unlisted sites in their order; for the empty list it returns the
\* array as it is.
C4_PartialTraceContractsListedSites ==
    (/\ PartialTraceDone
     /\ ndim(call.array) % 2 = 0
     /\ StrictlyAscending(call.traceout))
    =>
      LET sites == ndim(call.array) \div 2
          m     == Len(call.traceout)
      IN  /\ out.status = "ok"
          /\ out.traced = [j \in 1 .. m |->
                             <<call.traceout[m + 1 - j],
                               call.traceout[m + 1 - j] + (sites - (j - 1))>>]
          /\ out.value = TraceWrittenOut(call.array, ElemsOf(call.traceout))
          /\ m = 0 => out.value = call.array

\* sites 0 and 2 of three traced out, site 1 kept
C4_Witness ==
    /\ PartialTraceDone
    /\ call.array.shape = <<1, 2, 3, 1, 2, 3>>
    /\ call.traceout = <<0, 2>>
    /\ out.status = "ok"
    /\ out.traced = << <<2, 5>>, <<0, 2>> >>
    /\ out.value.shape = <<2, 2>>

\* C5: a list of sites that is not strictly ascending is refused (the call
\* ends with an exception, OrderViolation) before anything is contracted; no
\* array is returned for it.
C5_UnorderedListRefused ==
    (PartialTraceDone /\ ~StrictlyAscending(call.traceout))
    => (out.status # "ok" /\ out.traced = <<>>)

(***************************************************************************)
(* block_diag.  Its arrays carry a dtype, "int64" or "complex128"; an      *)
(* entry is a pair <<re, im>>, with im = 0 in an array of integers.  Two   *)
(* things block_diag does depend on the NumPy it runs on, so the call      *)
(* names it:                                                               *)
(*   "legacy"    an in-place += casts to the dtype of its target as it can *)
(*               (a complex number loses its imaginary part), and floats   *)
(*               are accepted as the bounds of a slice;                    *)
(*   "same_kind" an in-place += raises TypeError unless the cast is safe   *)
(*               or within one kind (NumPy 1.10 on);                       *)
(*   "strict"    besides, a slice with float bounds is refused as an index *)
(*               with TypeError (NumPy 1.12 on).                           *)
(***************************************************************************)
NumpyBuilds == {"legacy", "same_kind", "strict"}

Dtypes == {"int64", "complex128"}

\* array.astype(dtype) for the arrays np.arange makes: n becomes n + 1j for
\* "complex128" (an imaginary part to lose)
Typed(array, dtype) ==
    [shape |-> array.shape, dtype |-> dtype,
     data  |-> [idx \in DOMAIN array.data |->
                  IF dtype = "int64" THEN <<array.data[idx], 0>>
                  ELSE <<array.data[idx], 1>>]]

\* np.zeros(shape, dtype=dtype)
zeros_dtype(shape, dtype) ==
    [shape |-> shape, dtype |-> dtype,
     data  |-> [idx \in Indices(shape) |-> <<0, 0>>]]

\* np.can_cast(from, to, casting='same_kind')
CanCastSameKind(from, to) == ~(from = "complex128" /\ to = "int64")

\* the number x of dtype `from` as dtype `to`
Cast(x, from, to) ==
    IF to = "complex128" THEN x ELSE <<x[1], 0>>

\* x + y
Plus(x, y) == <<x[1] + y[1], x[2] + y[2]>>

\* the axes not listed, in ascending order, from axis a on
RECURSIVE OtherAxes(_, _, _)
OtherAxes(a, n, axes) ==
    IF a >= n THEN <<>>
    ELSE (IF \E j \in 1 .. Len(axes) : axes[j] = a THEN <<>> ELSE <<a>>)
         \o OtherAxes(a + 1, n, axes)

\* np.argsort of a permutation: the inverse permutation
argsort(order) ==
    [a \in 1 .. Len(order) |-> (CHOOSE i \in 1 .. Len(order) : order[i] = a - 1) - 1]

\* res[pos] += array for pos = [slice(startpos[j], endpos[j]) for j]: the
\* region is cut on the leading axes and spans the others; what is added is
\* cast to the dtype of res
AddAt(res, startpos, endpos, array) ==
    LET nr == Len(startpos)
        inside(idx) == \A j \in 1 .. nr : startpos[j] <= idx[j] /\ idx[j] < endpos[j]
    IN  [res EXCEPT !.data =
            [idx \in Indices(res.shape) |->
                IF inside(idx)
                THEN Plus(res.data[idx],
                          Cast(array.data[[j \in 1 .. Len(idx) |->
                                              IF j <= nr THEN idx[j] - startpos[j]
                                              ELSE idx[j]]],
                               array.dtype, res.dtype))
                ELSE res.data[idx]]]

RECURSIVE block_diag_loop(_, _, _, _, _)
\* for array, shape in zip(summands, shapes): ... (startpos = np.zeros(nr_axes)
\* holds floats)
block_diag_loop(res, startpos, summands, nr_axes, numpy) ==
    IF summands = <<>> THEN Ok(res)
    ELSE LET array  == Head(summands)
             shape  == SubSeq(array.shape, 1, nr_axes)
             endpos == [j \in 1 .. nr_axes |-> startpos[j] + shape[j]]
         IN  IF numpy = "strict" THEN Raise("TypeError")
             ELSE IF numpy = "same_kind" /\ ~CanCastSameKind(array.dtype, res.dtype)
             THEN Raise("TypeError")
             ELSE block_diag_loop(AddAt(res, startpos, endpos, array), endpos,
                                  Tail(summands), nr_axes, numpy)

\* block_diag(summands, axes) run on the NumPy named
block_diag(summands, axes, numpy) ==
    LET n          == ndim(summands[1])
        axes_n     == [j \in 1 .. Len(axes) |-> NormAxis(axes[j], n)]
        nr_axes    == Len(axes_n)
        axes_order == axes_n \o OtherAxes(0, n, axes_n)
        summands_t == [k \in 1 .. Len(summands) |->
                          transpose(summands[k], axes_order)]
        shapes     == [k \in 1 .. Len(summands) |->
                          SubSeq(summands_t[k].shape, 1, nr_axes)]
        total      == [j \in 1 .. nr_axes |->
                          SumTo([k \in 0 .. Len(summands) - 1 |-> shapes[k + 1][j]],
                                Len(summands))]
        res        == zeros_dtype(total \o SubSeq(summands_t[1].shape, nr_axes + 1, n),
                                  summands[1].dtype)
        filled     == block_diag_loop(res, [j \in 1 .. nr_axes |-> 0],
                                      summands_t, nr_axes, numpy)
    IN  IF filled.status # "ok" THEN filled
        ELSE Ok(transpose(filled.value, argsort(axes_order)))

(***************************************************************************)
(* Inputs of block_diag: up to MaxSummands arrays of equal rank (at most   *)
(* MaxRank) that follow one another as np.arange does in the doctest, each *)
(* of either dtype; up to MaxAxes distinct axes, each written as a or as   *)
(* a - ndim.  The arrays agree (extent 1 or 2) on the axes not listed; on  *)
(* the listed axes an array has extent 2 throughout, or 1 and 2 in turn.   *)
(***************************************************************************)
Profiles == {"even", "turns"}

ProfileExtent(profile, a) == IF profile = "even" THEN 2 ELSE 1 + (a % 2)

SummandShape(n, axes, common, profile) ==
    [i \in 1 .. n |->
        IF \E j \in 1 .. Len(axes) : NormAxis(axes[j], n) = i - 1
        THEN ProfileExtent(profile, i - 1)
        ELSE common]

RECURSIVE Summands(_, _, _, _, _)
\* the summands for <<profile, dtype>> in turn, the next starting where one ends
Summands(start, n, axes, common, kinds) ==
    IF kinds = <<>> THEN <<>>
    ELSE LET shp == SummandShape(n, axes, common, Head(kinds)[1])
         IN  <<Typed(arange(start, shp), Head(kinds)[2])>>
             \o Summands(start + Prod(shp), n, axes, common, Tail(kinds))

AxesLists(n) ==
    {ax \in UNION {[1 .. m -> (0 - n) .. n - 1] : m \in 1 .. Min(n, MaxAxes)} :
        \A i, j \in 1 .. Len(ax) : i # j => NormAxis(ax[i], n) # NormAxis(ax[j], n)}

BlockDiagCalls ==
    UNION {[op : {"block_diag"},
            summands : {Summands(0, n, ax, c, kinds) :
                           c \in 1 .. 2,
                           kinds \in UNION {[1 .. k -> Profiles \X Dtypes]
                                               : k \in 1 .. MaxSummands}},
            axes : {ax},
            numpy : NumpyBuilds]
           : <<n, ax>> \in UNION {{n} \X AxesLists(n) : n \in 1 .. MaxRank}}

InitBlockDiag ==
    /\ call \in BlockDiagCalls
    /\ out = Pending
    /\ randstate = 0
    /\ np_random = 0

BlockDiag ==
    /\ call.op = "block_diag"
    /\ out = Pending
    /\ out' = block_diag(call.summands, call.axes, call.numpy)
    /\ UNCHANGED <<call, randstate, np_random>>

NextBlockDiag == BlockDiag

SpecBlockDiag == InitBlockDiag /\ [][NextBlockDiag]_vars

(***************************************************************************)
(* Properties of block_diag                                                *)
(***************************************************************************)
BlockDiagDone ==
    /\ call.op = "block_diag"
    /\ out # Pending

\* the extents of summands 1 .. k on axis a (0-based), added up
RECURSIVE ExtentBefore(_, _, _)
ExtentBefore(summands, k, a) ==
    IF k = 0 THEN 0
    ELSE summands[k].shape[a + 1] + ExtentBefore(summands, k - 1, a)

\* result is the block-diagonal sum of the summands S along the axes given
IsBlockDiagonalSum(result, S, axes) ==
    LET n      == ndim(S[1])
        listed == {NormAxis(axes[j], n) : j \in 1 .. Len(axes)}
        off(k, a) == ExtentBefore(S, k - 1, a)
        inblock(k, idx) ==
            \A a \in listed :
               off(k, a) <= idx[a + 1] /\ idx[a + 1] < off(k, a) + S[k].shape[a + 1]
    IN  /\ result.shape =
              [i \in 1 .. n |->
                  IF i - 1 \in listed THEN ExtentBefore(S, Len(S), i - 1)
                  ELSE S[1].shape[i]]
        /\ \A idx \in DOMAIN result.data :
              /\ \A k \in 1 .. Len(S) :
                    inblock(k, idx) =>
                       result.data[idx] =
                          S[k].data[[i \in 1 .. n |->
                                           IF i - 1 \in listed
                                           THEN idx[i] - off(k, i - 1)
                                           ELSE idx[i]]]
              /\ (\A k \in 1 .. Len(S) : ~inblock(k, idx))
                    => result.data[idx] = <<0, 0>>

\* C6: block_diag returns an array with the axes in the order of the input,
\* whose extent on a listed axis is the sum of the summands' extents there
\* and on every other axis the common extent; summand k lies, on every listed
\* axis, in the index range that starts at the sum of the extents of the
\* summands before it, its entries unchanged; every entry outside these
\* blocks is 0.  (The doctest: two (2, 2, 2) arrays, axes (1, -1).)
C6_BlockDiagonalSum ==
    BlockDiagDone =>
      /\ out.status = "ok"
      /\ IsBlockDiagonalSum(out.value, call.summands, call.axes)

\* What block_diag does keep: on a NumPy that takes float slice bounds, and
\* with no complex summand after a first summand of integers, the result is
\* the block-diagonal sum.
BlockDiagonalSumWhereSupported ==
    (/\ BlockDiagDone
     /\ call.numpy # "strict"
     /\ \A k \in 1 .. Len(call.summands) :
           CanCastSameKind(call.summands[k].dtype, call.summands[1].dtype))
    =>
      /\ out.status = "ok"
      /\ IsBlockDiagonalSum(out.value, call.summands, call.axes)
      /\ (/\ call.summands = <<Typed(arange(0, <<2, 2, 2>>), "int64"),
                               Typed(arange(8, <<2, 2, 2>>), "int64")>>
          /\ call.axes = <<1, -1>>)
         => /\ out.value.shape = <<2, 4, 4>>
            /\ out.value.data[<<0, 1, 1>>] = <<3, 0>>
            /\ out.value.data[<<0, 1, 2>>] = <<0, 0>>
            /\ out.value.data[<<0, 2, 1>>] = <<0, 0>>
            /\ out.value.data[<<1, 2, 2>>] = <<12, 0>>
            /\ out.value.data[<<1, 3, 3>>] = <<15, 0>>

\* the doctest, on the NumPy it was written for
BlockDiagDoctest ==
    /\ BlockDiagDone
    /\ call.summands = <<Typed(arange(0, <<2, 2, 2>>), "int64"),
                         Typed(arange(8, <<2, 2, 2>>), "int64")>>
    /\ call.axes = <<1, -1>>
    /\ call.numpy = "legacy"
    /\ out.status = "ok"
    /\ out.value.shape = <<2, 4, 4>>
    /\ out.value.data[<<1, 2, 2>>] = <<12, 0>>

\* a summand of integers followed by a complex one: the complex entries do
\* not arrive
BlockDiagMixedDtypes ==
    /\ BlockDiagDone
    /\ Len(call.summands) = 2
    /\ call.summands[1].dtype = "int64"
    /\ call.summands[2].dtype = "complex128"
    /\ call.numpy = "legacy"
    /\ out.status = "ok"
    /\ ~IsBlockDiagonalSum(out.value, call.summands, call.axes)

(***************************************************************************)
(* factory.py.  The state of a random source is its position in its stream *)
(* of draws; `randstate` is the source the caller supplies and `np_random` *)
(* the process-wide default one (np.random).  A block of n draws taken     *)
(* from a source at position p is the record [src, at |-> p, n |-> n]: the *)
(* numbers themselves are whatever the stream holds there.  w is the pair  *)
(* of both positions.                                                      *)
(***************************************************************************)
World(rs, gs) == [randstate |-> rs, np_random |-> gs]

\* source.randn(*shape) or source.rand(n): the block drawn and the state after
Draw(src, n, w) ==
    IF src = "randstate"
    THEN [block |-> [src |-> src, at |-> w.randstate, n |-> n],
          w |-> [w EXCEPT !.randstate = @ + n]]
    ELSE [block |-> [src |-> src, at |-> w.np_random, n |-> n],
          w |-> [w EXCEPT !.np_random = @ + n]]

\* randstate if randstate is not None else np.random
SourceOf(arg) == IF arg # "None" THEN "randstate" ELSE "np.random"

\* _zrandn(shape, randstate): the real parts are drawn, then the imaginary
_zrandn(shape, arg, w) ==
    LET re == Draw(SourceOf(arg), Prod(shape), w)
        im == Draw(SourceOf(arg), Prod(shape), re.w)
    IN  [value |-> [shape |-> shape, re |-> re.block, im |-> im.block],
         w |-> im.w]

\* func(shape) for the element factories _generate is used with
Apply(func, shape, w) ==
    IF func.name = "np.zeros" THEN [value |-> zeros(shape), w |-> w]
    ELSE _zrandn(shape, func.randstate, w)

RECURSIVE ApplyEach(_, _, _)
\* func called with each of the shapes in turn: the tensors, the state after
ApplyEach(func, shapes, w) ==
    IF shapes = <<>> THEN [values |-> <<>>, w |-> w]
    ELSE LET first == Apply(func, Head(shapes), w)
             rest  == ApplyEach(func, Tail(shapes), first.w)
         IN  [values |-> <<first.value>> \o rest.values, w |-> rest.w]

\* hasattr(ldim, '__iter__')
IsIterable(ldim) == ldim.kind # "scalar"

\* tuple(ldim) if hasattr(ldim, '__iter__') else (ldim, )
LdimTuple(ldim) == IF IsIterable(ldim) THEN ldim.dims ELSE <<ldim.dim>>

\* the right boundary tensor given a bond of extent bdim on its right too
LastShape_open_right(legs, bdim) == <<bdim>> \o legs \o <<bdim>>

\* the shape asked for ltens_r
LastShape(legs, bdim) == <<bdim>> \o legs \o <<1>>

\* every site given only the leg of its own position in the list
FlatLegs_one_per_site(ldim, i) ==
    IF ldim.kind = "flat" /\ i <= Len(ldim.dims) THEN <<ldim.dims[i]>>
    ELSE LdimTuple(ldim)

\* the legs of site i (1-based) when ldim[0] is not iterable
FlatLegs(ldim, i) == LdimTuple(ldim)

\* The calls of func that _generate makes, in order, and how it ends: status
\* "ok" after the call for ltens_r, or the exception that stops it.
GeneratePlan(sites, ldim, bdim) ==
    LET t == LdimTuple(ldim)
    IN  IF ~(sites > 1) THEN [status |-> "AssertionError", shapes |-> <<>>]
        ELSE IF t = <<>> THEN [status |-> "IndexError", shapes |-> <<>>]
        ELSE IF ldim.kind # "nested"
        THEN [status |-> "ok",
              shapes |-> << <<1>> \o FlatLegs(ldim, 1) \o <<bdim>> >>
                         \o [i \in 1 .. sites - 2 |->
                               <<bdim>> \o FlatLegs(ldim, i + 1) \o <<bdim>>]
                         \o << LastShape(FlatLegs(ldim, sites), bdim) >>]
        ELSE LET \* zip(range(sites - 2), ldim_iter) ends with the shorter one
                 inner == Min(sites - 2, Len(t) - 1)
                 left  == << <<1>> \o t[1] \o <<bdim>> >>
                          \o [i \in 1 .. inner |-> <<bdim>> \o t[i + 1] \o <<bdim>>]
             IN  IF inner + 2 <= Len(t)
                 THEN [status |-> "ok",
                       shapes |-> left \o << LastShape(t[inner + 2], bdim) >>]
                 ELSE [status |-> "StopIteration", shapes |-> left]

\* _generate(sites, ldim, bdim, func): the chain mp.MPArray is built from
\* (absent if an exception ends the call), the shapes func was called with
_generate(sites, ldim, bdim, func, w) ==
    LET plan == GeneratePlan(sites, ldim, bdim)
        made == ApplyEach(func, plan.shapes, w)
    IN  IF plan.status = "ok"
        THEN [status |-> "ok", chain |-> made.values, calls |-> plan.shapes,
              w |-> made.w]
        ELSE [status |-> plan.status, calls |-> plan.shapes, w |-> made.w]

random_mpa(sites, ldim, bdim, arg, w) ==
    _generate(sites, ldim, bdim, [name |-> "_zrandn", randstate |-> arg], w)

zero(sites, ldim, bdim, w) ==
    _generate(sites, ldim, bdim, [name |-> "np.zeros"], w)

(***************************************************************************)
(* Inputs of zero and random_mpa: ldim a scalar, a sequence of scalars or  *)
(* a sequence of tuples of leg sizes, of up to MaxChainSites + 1 elements. *)
(***************************************************************************)
LegTuples == {<<d>> : d \in 1 .. MaxLdim} \cup {<<1, MaxLdim>>}

Ldims ==
    [kind : {"scalar"}, dim : 1 .. MaxLdim]
    \cup [kind : {"flat"}, dims : SeqsUpTo(1 .. MaxLdim, MaxChainSites + 1)]
    \cup [kind : {"nested"},
          dims : SeqsUpTo(LegTuples, MaxChainSites + 1) \ {<<>>}]

GenerateCalls ==
    [op : {"zero"}, sites : 0 .. MaxChainSites, ldim : Ldims, bdim : 1 .. MaxBdim,
     randstate0 : {0}, np_random0 : {0}]
    \cup
    [op : {"random_mpa"}, sites : 0 .. MaxChainSites, ldim : Ldims,
     bdim : 1 .. MaxBdim, randstate : {"given", "None"},
     randstate0 : {0}, np_random0 : {0}]

InitGenerate ==
    /\ call \in GenerateCalls
    /\ out = Pending
    /\ randstate = call.randstate0
    /\ np_random = call.np_random0

\* what the call leaves behind: its result or exception, the sources' states
Returns(r) ==
    /\ out' = [f \in DOMAIN r \ {"w"} |-> r[f]]
    /\ randstate' = r.w.randstate
    /\ np_random' = r.w.np_random
    /\ UNCHANGED call

Zero ==
    /\ call.op = "zero"
    /\ out = Pending
    /\ Returns(zero(call.sites, call.ldim, call.bdim, World(randstate, np_random)))

RandomMpa ==
    /\ call.op = "random_mpa"
    /\ out = Pending
    /\ Returns(random_mpa(call.sites, call.ldim, call.bdim, call.randstate,
                          World(randstate, np_random)))

NextGenerate == Zero \/ RandomMpa

SpecGenerate == InitGenerate /\ [][NextGenerate]_vars

(***************************************************************************)
(* Properties of _generate                                                 *)
(***************************************************************************)
GenerateDone ==
    /\ call.op \in {"zero", "random_mpa"}
    /\ out # Pending

\* the extents of the left and right bond of the tensor of site i (1-based)
LeftBond(tensor) == tensor.shape[1]
RightBond(tensor) == tensor.shape[Len(tensor.shape)]

\* the bond extents site i of `sites` is to have
BondLeftOf(i, bdim) == IF i = 1 THEN 1 ELSE bdim
BondRightOf(i, sites, bdim) == IF i = sites THEN 1 ELSE bdim

\* C7: a call of _generate that returns, returns `sites` tensors, tensor i
\* made by the i-th of exactly `sites` calls of func; the first has left bond
\* 1, the last right bond 1, every other bond is bdim, and the right bond of
\* a tensor is the left bond of the next (also for two sites).
C7_ChainBonds ==
    (GenerateDone /\ out.status = "ok") =>
      /\ call.sites >= 2
      /\ Len(out.chain) = call.sites
      /\ Len(out.calls) = call.sites
      /\ \A i \in 1 .. call.sites :
            /\ out.chain[i].shape = out.calls[i]
            /\ call.op = "zero" => out.chain[i] = zeros(out.calls[i])
            /\ call.op = "random_mpa" =>
                  /\ out.chain[i].re.at + out.chain[i].re.n = out.chain[i].im.at
                  /\ i < call.sites =>
                        out.chain[i].im.at + out.chain[i].im.n
                           = out.chain[i + 1].re.at
            /\ LeftBond(out.chain[i]) = BondLeftOf(i, call.bdim)
            /\ RightBond(out.chain[i]) = BondRightOf(i, call.sites, call.bdim)
            /\ i < call.sites =>
                  RightBond(out.chain[i]) = LeftBond(out.chain[i + 1])

\* two sites: no tensor between the boundary ones
C7_Witness ==
    /\ GenerateDone
    /\ out.status = "ok"
    /\ call.sites = 2
    /\ call.bdim = 2
    /\ Len(out.chain) = 2
    /\ out.chain[1].shape = <<1, 2, 2>>
    /\ out.chain[2].shape = <<2, 2, 1>>

\* the shape of tensor i of the chain for the legs given
SiteShape(i, legs) ==
    <<BondLeftOf(i, call.bdim)>> \o legs
    \o <<BondRightOf(i, call.sites, call.bdim)>>

\* C8 as stated: a flat sequence of `sites` scalars gives site i the one leg
\* ldim[i]; a scalar gives every site one leg of that size; a sequence of
\* tuples gives site i the legs ldim[i].
C8_FlatSequenceOneLegPerSite ==
    (GenerateDone /\ call.sites >= 2) =>
      /\ (call.ldim.kind = "flat" /\ Len(call.ldim.dims) = call.sites) =>
            /\ out.status = "ok"
            /\ \A i \in 1 .. call.sites :
                  out.chain[i].shape = SiteShape(i, <<call.ldim.dims[i]>>)
      /\ call.ldim.kind = "scalar" =>
            /\ out.status = "ok"
            /\ \A i \in 1 .. call.sites :
                  out.chain[i].shape = SiteShape(i, <<call.ldim.dim>>)
      /\ (call.ldim.kind = "nested" /\ out.status = "ok") =>
            \A i \in 1 .. call.sites :
               out.chain[i].shape = SiteShape(i, call.ldim.dims[i])

\* C8 amended: a non-empty flat sequence of scalars, of whatever length,
\* gives every site all of its entries as legs, in their order; a scalar
\* gives every site one leg of that size; a sequence of tuples gives site i
\* the legs ldim[i].
C8_FlatSequenceAllLegsEverySite ==
    (GenerateDone /\ call.sites >= 2) =>
      /\ (call.ldim.kind = "flat" /\ call.ldim.dims # <<>>) =>
            /\ out.status = "ok"
            /\ \A i \in 1 .. call.sites :
                  out.chain[i].shape = SiteShape(i, call.ldim.dims)
      /\ call.ldim.kind = "scalar" =>
            /\ out.status = "ok"
            /\ \A i \in 1 .. call.sites :
                  out.chain[i].shape = SiteShape(i, <<call.ldim.dim>>)
      /\ (call.ldim.kind = "nested" /\ out.status = "ok") =>
            \A i \in 1 .. call.sites :
               out.chain[i].shape = SiteShape(i, call.ldim.dims[i])

\* as many scalars as sites, of different sizes: both legs at either site
C8_Witness ==
    /\ GenerateDone
    /\ call.sites = 2
    /\ call.ldim = [kind |-> "flat", dims |-> <<1, 2>>]
    /\ out.status = "ok"
    /\ out.chain[1].shape = <<1, 1, 2, call.bdim>>
    /\ out.chain[2].shape = <<call.bdim, 1, 2, 1>>

\* C9: with fewer than 2 sites, or with a sequence for ldim whose length is
\* not `sites`, the call fails (the assertion is the code's configuration
\* error) before func is called once: no tensor is made, no draw is taken
\* from either random source, no chain is returned.
C9_BadConfigurationRefusedFirst ==
    (/\ GenerateDone
     /\ \/ call.sites < 2
        \/ IsIterable(call.ldim) /\ Len(call.ldim.dims) # call.sites)
    =>
      /\ out.status = "AssertionError"
      /\ out.calls = <<>>
      /\ randstate = call.randstate0
      /\ np_random = call.np_random0

(***************************************************************************)
(* The sampling routines of factory.py.  What a routine computes from its  *)
(* draws (sums, products, normalisations) is a function of the draws; the  *)
(* model keeps the blocks drawn and the flags that select the arithmetic.  *)
(***************************************************************************)
RECURSIVE Pow(_, _)
Pow(b, e) == IF e <= 0 THEN 1 ELSE b * Pow(b, e - 1)

Scalar(d) == [kind |-> "scalar", dim |-> d]

random_vec(sites, ldim, arg, w) ==
    LET psi == _zrandn(Uniform(sites, ldim), arg, w)
    IN  [status |-> "ok", value |-> psi.value, w |-> psi.w]

random_op(sites, ldim, hermitian, normalized, arg, w) ==
    LET op == _zrandn(<<Pow(ldim, sites), Pow(ldim, sites)>>, arg, w)
    IN  [status |-> "ok",
         value |-> [op.value EXCEPT !.shape = Uniform(2 * sites, ldim)],
         hermitian |-> hermitian, normalized |-> normalized,
         w |-> op.w]

random_state(sites, ldim, arg, w) ==
    LET mat == _zrandn(<<Pow(ldim, sites), Pow(ldim, sites)>>, arg, w)
    IN  [status |-> "ok",
         value |-> [mat.value EXCEPT !.shape = Uniform(2 * sites, ldim)],
         w |-> mat.w]

random_mpo(sites, ldim, bdim, arg, hermitian, normalized, w) ==
    LET mpo == random_mpa(sites, [kind |-> "flat", dims |-> <<ldim, ldim>>],
                          bdim, arg, w)
    IN  IF mpo.status # "ok" THEN mpo
        ELSE [status |-> "ok", chain |-> mpo.chain, calls |-> mpo.calls,
              hermitian |-> hermitian, normalized |-> normalized, w |-> mpo.w]

random_mps(sites, ldim, bdim, arg, w) ==
    random_mpa(sites, Scalar(ldim), bdim, arg, w)

\* _gue(dim, randstate): _zrandn((dim, dim)) is called without randstate
_gue(dim, arg, w) == _zrandn(<<dim, dim>>, "None", w)

RECURSIVE RandomMpsEach(_, _, _, _, _)
\* [random_mps(sites, ldim, 1, randstate=randstate) for _ in range(count)]
RandomMpsEach(count, sites, ldim, arg, w) ==
    IF count = 0 THEN [status |-> "ok", values |-> <<>>, w |-> w]
    ELSE LET psi == random_mps(sites, ldim, 1, arg, w)
         IN  IF psi.status # "ok" THEN [status |-> psi.status, w |-> psi.w]
             ELSE LET rest == RandomMpsEach(count - 1, sites, ldim, arg, psi.w)
                  IN  IF rest.status # "ok" THEN rest
                      ELSE [status |-> "ok",
                            values |-> <<psi.chain>> \o rest.values,
                            w |-> rest.w]

RECURSIVE GueEach(_, _, _)
\* for n, bdim in enumerate(rho.bdims): unitary = _gue(bdim, randstate)
GueEach(bdims, arg, w) ==
    IF bdims = <<>> THEN [values |-> <<>>, w |-> w]
    ELSE LET unitary == _gue(Head(bdims), arg, w)
             rest    == GueEach(Tail(bdims), arg, unitary.w)
         IN  [values |-> <<unitary.value>> \o rest.values, w |-> rest.w]

\* rho.bdims of the sum of bdim chains of bond dimension 1 on `sites` sites
MixtureBdims(sites, bdim) == [n \in 1 .. sites - 1 |-> bdim]

random_mpdo(sites, ldim, bdim, arg, w) ==
    LET psis == RandomMpsEach(bdim, sites, ldim, arg, w)
    IN  IF psis.status # "ok" THEN [status |-> psis.status, w |-> psis.w]
        ELSE LET weights   == Draw("np.random", bdim, psis.w)
                 unitaries == GueEach(MixtureBdims(sites, bdim), arg, weights.w)
             IN  [status |-> "ok", psis |-> psis.values,
                  weights |-> weights.block, unitaries |-> unitaries.values,
                  w |-> unitaries.w]

RECURSIVE LocalHams(_, _, _, _)
\* [get_local_ham() for _ in range(count)]: random_op is called without
\* randstate
LocalHams(count, ldim, intlen, w) ==
    IF count <= 0 THEN [values |-> <<>>, w |-> w]
    ELSE LET op   == random_op(intlen, ldim, TRUE, TRUE, "None", w)
             rest == LocalHams(count - 1, ldim, intlen, op.w)
         IN  [values |-> <<op.value>> \o rest.values, w |-> rest.w]

random_local_ham(sites, ldim, intlen, arg, w) ==
    IF ~(sites >= intlen) THEN [status |-> "AssertionError", w |-> w]
    ELSE LET hams == LocalHams(sites + 1 - intlen, ldim, intlen, w)
         IN  [status |-> "ok", local_hams |-> hams.values, w |-> hams.w]

\* the routine a call names, applied to its arguments
Sample(c, w) ==
    CASE c.op = "random_vec"   -> random_vec(c.sites, c.ldim, c.randstate, w)
      [] c.op = "random_op"    -> random_op(c.sites, c.ldim, c.hermitian,
                                            c.normalized, c.randstate, w)
      [] c.op = "random_state" -> random_state(c.sites, c.ldim, c.randstate, w)
      [] c.op = "random_mpa"   -> random_mpa(c.sites, c.ldim, c.bdim, c.randstate, w)
      [] c.op = "random_mpo"   -> random_mpo(c.sites, c.ldim, c.bdim, c.randstate,
                                             c.hermitian, c.normalized, w)
      [] c.op = "random_mps"   -> random_mps(c.sites, c.ldim, c.bdim, c.randstate, w)
      [] c.op = "random_mpdo"  -> random_mpdo(c.sites, c.ldim, c.bdim, c.randstate, w)
      [] c.op = "random_local_ham" ->
            random_local_ham(c.sites, c.ldim, c.intlen, c.randstate, w)

(***************************************************************************)
(* Inputs of the sampling routines: the arguments, with or without a       *)
(* random source of the caller's, and the states the two sources are in.   *)
(***************************************************************************)
Sources == [randstate : {"given", "None"},
            randstate0 : 0 .. MaxPos, np_random0 : 0 .. MaxPos]

\* the records of R, each with the fields of one record of Sources added
WithSources(R) ==
    {[f \in DOMAIN r \cup DOMAIN s |-> IF f \in DOMAIN r THEN r[f] ELSE s[f]]
        : r \in R, s \in Sources}

RandomCalls ==
    WithSources(
        [op : {"random_vec", "random_state"},
         sites : 1 .. MaxChainSites, ldim : 1 .. MaxLdim]
        \cup [op : {"random_op"}, sites : 1 .. MaxChainSites, ldim : 1 .. MaxLdim,
              hermitian : BOOLEAN, normalized : BOOLEAN]
        \cup [op : {"random_mpa"}, sites : 1 .. MaxChainSites,
              ldim : {Scalar(d) : d \in 1 .. MaxLdim}, bdim : 1 .. MaxBdim]
        \cup [op : {"random_mpo"}, sites : 1 .. MaxChainSites, ldim : 1 .. MaxLdim,
              bdim : 1 .. MaxBdim, hermitian : BOOLEAN, normalized : BOOLEAN]
        \cup [op : {"random_mps", "random_mpdo"}, sites : 1 .. MaxChainSites,
              ldim : 1 .. MaxLdim, bdim : 1 .. MaxBdim]
        \cup [op : {"random_local_ham"}, sites : 1 .. MaxChainSites,
              ldim : 1 .. MaxLdim, intlen : 1 .. MaxChainSites])

InitRandom ==
    /\ call \in RandomCalls
    /\ out = Pending
    /\ randstate = call.randstate0
    /\ np_random = call.np_random0

RandomVec ==
    /\ call.op = "random_vec"
    /\ out = Pending
    /\ Returns(random_vec(call.sites, call.ldim, call.randstate,
                          World(randstate, np_random)))

RandomOp ==
    /\ call.op = "random_op"
    /\ out = Pending
    /\ Returns(random_op(call.sites, call.ldim, call.hermitian, call.normalized,
                         call.randstate, World(randstate, np_random)))

RandomState ==
    /\ call.op = "random_state"
    /\ out = Pending
    /\ Returns(random_state(call.sites, call.ldim, call.randstate,
                            World(randstate, np_random)))

RandomMpo ==
    /\ call.op = "random_mpo"
    /\ out = Pending
    /\ Returns(random_mpo(call.sites, call.ldim, call.bdim, call.randstate,
                          call.hermitian, call.normalized,
                          World(randstate, np_random)))

RandomMps ==
    /\ call.op = "random_mps"
    /\ out = Pending
    /\ Returns(random_mps(call.sites, call.ldim, call.bdim, call.randstate,
                          World(randstate, np_random)))

RandomMpdo ==
    /\ call.op = "random_mpdo"
    /\ out = Pending
    /\ Returns(random_mpdo(call.sites, call.ldim, call.bdim, call.randstate,
                           World(randstate, np_random)))

RandomLocalHam ==
    /\ call.op = "random_local_ham"
    /\ out = Pending
    /\ Returns(random_local_ham(call.sites, call.ldim, call.intlen,
                                call.randstate, World(randstate, np_random)))

NextRandom ==
    \/ RandomVec
    \/ RandomOp
    \/ RandomState
    \/ RandomMpa
    \/ RandomMpo
    \/ RandomMps
    \/ RandomMpdo
    \/ RandomLocalHam

SpecRandom == InitRandom /\ [][NextRandom]_vars

(***************************************************************************)
(* Properties of the sampling routines                                     *)
(***************************************************************************)
\* the result of a call without the sources' states
ResultOf(r) == [f \in DOMAIN r \ {"w"} |-> r[f]]

\* C10: a sampling routine given a random source takes every draw from it:
\* its result is the same whatever state the default source is in, and it
\* leaves the default source's state as it was.
C10_SuppliedSourceDecides ==
    (out # Pending /\ call.randstate = "given") =>
      /\ np_random = call.np_random0
      /\ \A g \in 0 .. MaxPos :
            ResultOf(Sample(call, World(call.randstate0, g))) = out

====
